---- MODULE Spec2Model ----
(***************************************************************************)
(* Model of the sandboxed_collections containers:                          *)
(*   - LruCache   (src/src/collections/lru_cache.rs) over the arena-backed *)
(*     doubly linked list (spec section 4.2, source not in the tree)       *)
(*   - NaryForest (src/src/collections/naryforest.rs)                      *)
(*   - RingBuffer (src/src/collections/ring_buffer.rs), slot indices only  *)
(*   - NaryTree   (src/src/collections/narytree.rs)                        *)
(* A panic (unwrap / expect / out-of-range index) is modelled by recording *)
(* the panic site in an "aborted" variable; an aborted structure takes no  *)
(* further step.                                                           *)
(***************************************************************************)
EXTENDS Integers, Sequences, FiniteSets, TLC

\* ------------------------------------------------------------------ bounds
MaxCap == 2
NumKeys == 3
MaxNodes == 3
MaxLinks == 2
MaxRoots == 2
MaxRingCap == 3
MaxEnq == 4
MaxTreeNodes == 2
MaxTreeLinks == 1

Keys == 1..NumKeys
\* Payloads are opaque to both containers (V and T are never inspected or
\* compared by the code), so two distinguishable values cover every case.
Vals == {1, 2}

\* ------------------------------------------------------------ Option<T>
None == <<>>
Some(x) == <<x>>
IsSome(o) == Len(o) = 1
Unwrap(o) == o[1]

\* Pointer sentinel !0 (all bits set); no arithmetic is ever done on it, so
\* it is written as the two's complement reading of that bit pattern.
NULL == -1
LNULL == NULL

RECURSIVE SeqToSet(_)
SeqToSet(s) == IF s = <<>> THEN {} ELSE {Head(s)} \cup SeqToSet(Tail(s))

\* LruCache: the fields key_table, list, cache_size, the call history, and
\* lru_model, the abstract LRU map (run in SpecLruMap only)
VARIABLES key_table, list, cache_size, lru_aborted, lru_last, inserted, lru_model

lru_vars == <<key_table, list, cache_size, lru_aborted, lru_last, inserted, lru_model>>

\* RingBuffer: the fields len, capacity, pointers and the call history
VARIABLES rb_len, rb_capacity, rb_pointers, rb_last, enq_log, deq_log, rb_plain

ring_vars == <<rb_len, rb_capacity, rb_pointers, rb_last, enq_log, deq_log, rb_plain>>

\* NaryTree: the fields root, memory, node_pool and the call history
VARIABLES t_root, t_memory, node_pool, t_last, t_live

tree_vars == <<t_root, t_memory, node_pool, t_last, t_live>>

\* ================================================================
\* NaryForest
\* memory is the backing Vec<NaryNode>: index i lives at memory[i+1];
\* a node is [parent, data : Option, children : sequence of indices]
\* ================================================================
VARIABLES root_list, pool, memory, f_aborted, f_last, f_links, live

forest_vars == <<root_list, pool, memory, f_aborted, f_last, f_links, live>>

\* what each container's operations leave alone
not_lru == <<forest_vars, ring_vars, tree_vars>>
not_forest == <<lru_vars, ring_vars, tree_vars>>
not_ring == <<lru_vars, forest_vars, tree_vars>>
not_tree == <<lru_vars, forest_vars, ring_vars>>

NoAbort == "none"

\* NaryNode::new
NaryNodeNew == [parent |-> NULL, data |-> None, children |-> <<>>]

\* NaryNode::with_data
WithData(node, data) == [node EXCEPT !.data = Some(data)]

\* Index<u32>: memory.get(ptr).unwrap() succeeds
InRange(mem, ptr) == ptr /= NULL /\ ptr >= 0 /\ ptr < Len(mem)

\* NaryForest::new
ForestNew ==
    /\ root_list = <<>>
    /\ pool = NULL
    /\ memory = <<>>
    /\ f_aborted = NoAbort
    /\ f_last = [op |-> "new", node |-> NULL, ret |-> NULL, ok |-> TRUE]
    /\ f_links = 0
    /\ live = {}

\* The effect of allocate(val) as a record [mem, pool, ret, abort]
AllocateEffect(mem, pl, val) ==
    IF pl = NULL
    THEN [mem |-> Append(mem, WithData(NaryNodeNew, val)), pool |-> pl,
          ret |-> Len(mem), abort |-> NoAbort]
    ELSE IF ~InRange(mem, pl)
    THEN [mem |-> mem, pool |-> pl, ret |-> NULL, abort |-> "allocate: index unwrap"]
    ELSE IF Len(mem[pl + 1].children) = 0
    THEN [mem |-> mem, pool |-> pl, ret |-> NULL, abort |-> "allocate: children[0] out of bounds"]
    ELSE [mem |-> [mem EXCEPT ![pl + 1].children = <<>>],
          pool |-> mem[pl + 1].children[1], ret |-> pl, abort |-> NoAbort]

\* The effect of free(node) as a record [mem, pool, abort]
FreeEffect(mem, pl, node) ==
    IF node = NULL
    THEN [mem |-> mem, pool |-> pl, abort |-> NoAbort]
    ELSE IF pl /= NULL
    THEN IF ~InRange(mem, node)
         THEN [mem |-> mem, pool |-> pl, abort |-> "free: index unwrap"]
         ELSE [mem |-> [mem EXCEPT ![node + 1].children = <<pl>>],
               pool |-> node, abort |-> NoAbort]
    ELSE [mem |-> mem, pool |-> node, abort |-> NoAbort]

\* NaryForest::allocate; the backing store is capped at MaxNodes slots
Allocate(val) ==
    /\ f_aborted = NoAbort
    /\ pool = NULL => Len(memory) < MaxNodes
    /\ LET e == AllocateEffect(memory, pool, val) IN
        /\ memory' = e.mem
        /\ pool' = e.pool
        /\ f_aborted' = e.abort
        /\ f_last' = [op |-> "allocate", node |-> NULL, ret |-> e.ret, ok |-> TRUE]
        /\ live' = IF e.ret = NULL THEN live ELSE live \cup {e.ret}
    /\ UNCHANGED <<root_list, f_links, not_forest>>

\* NaryForest::free
Free(node) ==
    /\ f_aborted = NoAbort
    /\ LET e == FreeEffect(memory, pool, node) IN
        /\ memory' = e.mem
        /\ pool' = e.pool
        /\ f_aborted' = e.abort
    /\ f_last' = [op |-> "free", node |-> node, ret |-> NULL, ok |-> node \in live]
    /\ live' = live \ {node}
    /\ UNCHANGED <<root_list, f_links, not_forest>>

\* NaryForest::add_child; at most MaxLinks links are ever made
AddChild(parent, child) ==
    /\ f_aborted = NoAbort
    /\ InRange(memory, parent) /\ InRange(memory, child)
    /\ f_links < MaxLinks
    /\ memory' = [[memory EXCEPT ![parent + 1].children = Append(@, child)]
                     EXCEPT ![child + 1].parent = parent]
    /\ f_last' = [op |-> "add_child", node |-> NULL, ret |-> NULL, ok |-> TRUE]
    /\ f_links' = f_links + 1
    /\ UNCHANGED <<root_list, pool, f_aborted, live, not_forest>>

\* a Vec::insert that ignores index and pushes
InsertAt_Push(s, index, x) == Append(s, x)
\* Vec::insert(index, x)
InsertAt(s, index, x) == SubSeq(s, 1, index) \o <<x>> \o SubSeq(s, index + 1, Len(s))

\* NaryForest::add_child_at
AddChildAt(parent, child, index) ==
    /\ f_aborted = NoAbort
    /\ InRange(memory, parent) /\ InRange(memory, child)
    /\ f_links < MaxLinks
    /\ IF index > Len(memory[parent + 1].children)
       THEN /\ f_last' = [op |-> "add_child_at", node |-> NULL, ret |-> NULL, ok |-> FALSE,
                          index |-> index]
            /\ UNCHANGED <<memory, f_links>>
       ELSE /\ memory' = [[memory EXCEPT ![parent + 1].children = InsertAt(@, index, child)]
                             EXCEPT ![child + 1].parent = parent]
            /\ f_last' = [op |-> "add_child_at", node |-> NULL, ret |-> NULL, ok |-> TRUE,
                          index |-> index]
            /\ f_links' = f_links + 1
    /\ UNCHANGED <<root_list, pool, f_aborted, live, not_forest>>

\* the caller registers a node as a root: root_list.push(node); a root
\* entry is a link to a node and counts against MaxLinks like a child link
PushRoot(node) ==
    /\ f_aborted = NoAbort
    /\ InRange(memory, node)
    /\ Len(root_list) < MaxRoots
    /\ f_links < MaxLinks
    /\ root_list' = Append(root_list, node)
    /\ f_last' = [op |-> "push_root", node |-> NULL, ret |-> NULL, ok |-> TRUE]
    /\ f_links' = f_links + 1
    /\ UNCHANGED <<pool, memory, f_aborted, live, not_forest>>

\* ---------------------------------------------------------------- search
\* A predicate is a closure over &NaryNode. A search depends on it only
\* through the set of nodes it accepts, and every set of nodes is accepted
\* by some closure (payloads may be pairwise distinct): pred is that set.
PredHolds(pred, ptr) == ptr \in pred

\* Recursion depth after which a call of search_and_collect can no longer
\* return: a call chain this deep holds some node twice with the same
\* results.len(), and the calls between the two repeat for ever.
Fuel(mem, max_results) == Len(mem) * (max_results + 1) + 1

\* NaryForest::search as a record [ret : Option<Pointer>, returns];
\* returns is FALSE when the recursion never comes back (a link cycle with
\* no match on it) or an index is out of range
RECURSIVE SearchEffect(_, _, _, _), SearchChildren(_, _, _, _, _)
\* a search that looks at the children before the node itself
SearchEffect_ChildrenFirst(mem, root, pred, fuel) ==
    IF root = NULL THEN [ret |-> None, returns |-> TRUE]
    ELSE IF fuel = 0 \/ ~InRange(mem, root) THEN [ret |-> None, returns |-> FALSE]
    ELSE LET res == SearchChildren(mem, mem[root + 1].children, 1, pred, fuel - 1)
         IN IF ~res.returns \/ IsSome(res.ret) THEN res
            ELSE IF PredHolds(pred, root) THEN [ret |-> Some(root), returns |-> TRUE]
            ELSE res
SearchEffect(mem, root, pred, fuel) ==
    IF root = NULL THEN [ret |-> None, returns |-> TRUE]
    ELSE IF fuel = 0 \/ ~InRange(mem, root) THEN [ret |-> None, returns |-> FALSE]
    ELSE IF PredHolds(pred, root) THEN [ret |-> Some(root), returns |-> TRUE]
    ELSE SearchChildren(mem, mem[root + 1].children, 1, pred, fuel - 1)

\* the for loop of search over children[i..], left to right, leaving at the
\* first child call that yields Some
SearchChildren(mem, ch, i, pred, fuel) ==
    IF i > Len(ch) THEN [ret |-> None, returns |-> TRUE]
    ELSE LET res == SearchEffect(mem, ch[i], pred, fuel)
         IN IF ~res.returns \/ IsSome(res.ret) THEN res
            ELSE SearchChildren(mem, ch, i + 1, pred, fuel)

\* NaryForest::search_and_collect as a record [results, evals, returns];
\* evals lists the nodes the predicate was called on, in call order
RECURSIVE SearchAndCollect(_, _, _, _, _, _, _), CollectChildren(_, _, _, _, _, _, _, _)
\* a search_and_collect that tests the cap with > in place of >=
SearchAndCollect_OneMore(mem, root, results, evals, max_results, pred, fuel) ==
    IF root = NULL \/ Len(results) > max_results
    THEN [results |-> results, evals |-> evals, returns |-> TRUE]
    ELSE IF fuel = 0 \/ ~InRange(mem, root)
    THEN [results |-> results, evals |-> evals, returns |-> FALSE]
    ELSE CollectChildren(mem, mem[root + 1].children, 1,
                         IF PredHolds(pred, root) THEN Append(results, root) ELSE results,
                         Append(evals, root), max_results, pred, fuel - 1)
SearchAndCollect(mem, root, results, evals, max_results, pred, fuel) ==
    IF root = NULL \/ Len(results) >= max_results
    THEN [results |-> results, evals |-> evals, returns |-> TRUE]
    ELSE IF fuel = 0 \/ ~InRange(mem, root)
    THEN [results |-> results, evals |-> evals, returns |-> FALSE]
    ELSE CollectChildren(mem, mem[root + 1].children, 1,
                         IF PredHolds(pred, root) THEN Append(results, root) ELSE results,
                         Append(evals, root), max_results, pred, fuel - 1)

\* the for loop of search_and_collect over children[i..]
CollectChildren(mem, ch, i, results, evals, max_results, pred, fuel) ==
    IF i > Len(ch) THEN [results |-> results, evals |-> evals, returns |-> TRUE]
    ELSE LET r == SearchAndCollect(mem, ch[i], results, evals, max_results, pred, fuel)
         IN IF ~r.returns THEN r
            ELSE CollectChildren(mem, ch, i + 1, r.results, r.evals, max_results, pred, fuel)

\* the for loop of search_all over root_list[i..]
RECURSIVE SearchAllFrom(_, _, _, _, _, _, _)
SearchAllFrom(mem, roots, i, results, evals, max_results, pred) ==
    IF i > Len(roots) THEN [results |-> results, evals |-> evals, returns |-> TRUE]
    ELSE LET r == SearchAndCollect(mem, roots[i], results, evals, max_results, pred,
                                   Fuel(mem, max_results))
         IN IF ~r.returns THEN r
            ELSE SearchAllFrom(mem, roots, i + 1, r.results, r.evals, max_results, pred)

\* NaryForest::search_all as a record [results, evals, returns]
SearchAllEffect(mem, roots, max_results, pred) ==
    SearchAllFrom(mem, roots, 1, <<>>, <<>>, max_results, pred)

\* NaryForest::search; a call that never returns ends the run
Search(root, pred) ==
    /\ f_aborted = NoAbort
    /\ LET r == SearchEffect(memory, root, pred, Fuel(memory, 0)) IN
        /\ f_last' = [op |-> "search", node |-> root, ret |-> NULL, ok |-> r.returns,
                      pred |-> pred, found |-> r.ret]
        /\ f_aborted' = IF r.returns THEN NoAbort ELSE "search: unbounded recursion"
    /\ UNCHANGED <<root_list, pool, memory, f_links, live, not_forest>>

\* NaryForest::search_all; a call that never returns ends the run
SearchAll(max_results, pred) ==
    /\ f_aborted = NoAbort
    /\ LET r == SearchAllEffect(memory, root_list, max_results, pred) IN
        /\ f_last' = [op |-> "search_all", node |-> NULL, ret |-> NULL, ok |-> r.returns,
                      max_results |-> max_results, pred |-> pred, found |-> r.results]
        /\ f_aborted' = IF r.returns THEN NoAbort ELSE "search_all: unbounded recursion"
    /\ UNCHANGED <<root_list, pool, memory, f_links, live, not_forest>>

Indices == 0..(MaxNodes - 1)
Preds == SUBSET Indices

ForestAllocate == \E v \in Vals : Allocate(v)
\* free is called on NULL or on a live node (allocated and not freed since)
ForestFree == \E n \in Indices \cup {NULL} : (n = NULL \/ n \in live) /\ Free(n)
\* links and roots are made between live nodes
ForestAddChild == \E p \in live, c \in live : AddChild(p, c)
ForestAddChildAt == \E p \in live, c \in live, i \in 0..MaxLinks : AddChildAt(p, c, i)
ForestPushRoot == \E n \in live : PushRoot(n)

\* The effect of NaryForest::allocate_node(node) as a record
\* [mem, pool, ret, abort]: the caller's node is pushed as it is, a pooled
\* slot is handed out as allocate does and node is dropped
ForestAllocateNodeEffect(mem, pl, node) ==
    IF pl = NULL
    THEN [mem |-> Append(mem, node), pool |-> pl, ret |-> Len(mem), abort |-> NoAbort]
    ELSE IF ~InRange(mem, pl)
    THEN [mem |-> mem, pool |-> pl, ret |-> NULL, abort |-> "allocate_node: index unwrap"]
    ELSE IF Len(mem[pl + 1].children) = 0
    THEN [mem |-> mem, pool |-> pl, ret |-> NULL,
          abort |-> "allocate_node: children[0] out of bounds"]
    ELSE [mem |-> [mem EXCEPT ![pl + 1].children = <<>>],
          pool |-> mem[pl + 1].children[1], ret |-> pl, abort |-> NoAbort]

\* NaryForest::allocate_node; the backing store is capped at MaxNodes slots
ForestAllocateNodeOf(node) ==
    /\ f_aborted = NoAbort
    /\ pool = NULL => Len(memory) < MaxNodes
    /\ LET e == ForestAllocateNodeEffect(memory, pool, node) IN
        /\ memory' = e.mem
        /\ pool' = e.pool
        /\ f_aborted' = e.abort
        /\ f_last' = [op |-> "allocate_node", node |-> NULL, ret |-> e.ret, ok |-> TRUE]
        /\ live' = IF e.ret = NULL THEN live ELSE live \cup {e.ret}
    /\ UNCHANGED <<root_list, f_links, not_forest>>

\* the nodes a caller hands to allocate_node: a payload, no parent, and no
\* child or one child that is a live node (the fields of NaryNode are pub)
NodeArgs ==
    {[parent |-> NULL, data |-> Some(1), children |-> ch] :
        ch \in {<<>>} \cup {<<c>> : c \in live}}

ForestAllocateNode == \E node \in NodeArgs : ForestAllocateNodeOf(node)
\* without free the payloads are never looked at again: one value is enough
BuildAllocate == \E v \in {1} : Allocate(v)
\* searches start at NULL or at a live node, for up to MaxNodes results
ForestSearch == \E r \in live \cup {NULL}, pred \in Preds : Search(r, pred)
ForestSearchAll == \E n \in 0..MaxNodes, pred \in Preds : SearchAll(n, pred)

\* ================================================================
\* Doubly linked list over an arena (spec 4.1 / 4.2)
\* A list value is a record
\*   [mem   : sequence of nodes [data, prev, next]  (index i lives at mem[i+1]),
\*    front, rear : node index or LNULL,
\*    pool  : head of the free chain (threaded through next) or LNULL,
\*    len   : number of linked nodes]
\* ================================================================
LinkedListNew == [mem |-> <<>>, front |-> LNULL, rear |-> LNULL, pool |-> LNULL, len |-> 0]

LLNode(l, i) == l.mem[i + 1]

LLInRange(l, i) == i /= LNULL /\ i >= 0 /\ i < Len(l.mem)

\* allocate(value): pop the free-list head if any, else append a slot.
\* Result: [l |-> list, idx |-> index of the node]
LLAllocate(l, value) ==
    IF l.pool = LNULL
    THEN [l   |-> [l EXCEPT !.mem = Append(l.mem, [data |-> Some(value), prev |-> LNULL, next |-> LNULL])],
          idx |-> Len(l.mem)]
    ELSE LET p == l.pool IN
         [l   |-> [l EXCEPT !.pool = LLNode(l, p).next,
                            !.mem[p + 1] = [data |-> Some(value), prev |-> LNULL, next |-> LNULL]],
          idx |-> p]

\* free(index): clear payload and links, push on the free-list head.
LLFree(l, i) ==
    IF i = LNULL THEN l
    ELSE [l EXCEPT !.mem[i + 1] = [data |-> None, prev |-> LNULL, next |-> l.pool],
                   !.pool = i]

\* push_front(value): allocate, link before the current front.
LLPushFront(l, value) ==
    LET a  == LLAllocate(l, value)
        n  == a.idx
        l1 == a.l
        l2 == [l1 EXCEPT !.mem[n + 1].next = l.front]
        l3 == IF l.front = LNULL
              THEN [l2 EXCEPT !.rear = n]
              ELSE [l2 EXCEPT !.mem[l.front + 1].prev = n]
    IN [l3 EXCEPT !.front = n, !.len = l.len + 1]

\* remove(index) -> Option<value>: detach, splice neighbours, free the node.
\* Result: [l |-> list, ret |-> Option<value>]
LLRemove(l, i) ==
    IF ~LLInRange(l, i) \/ ~IsSome(LLNode(l, i).data)
    THEN [l |-> l, ret |-> None]
    ELSE LET nd == LLNode(l, i)
             l1 == IF nd.prev = LNULL
                   THEN [l EXCEPT !.front = nd.next]
                   ELSE [l EXCEPT !.mem[nd.prev + 1].next = nd.next]
             l2 == IF nd.next = LNULL
                   THEN [l1 EXCEPT !.rear = nd.prev]
                   ELSE [l1 EXCEPT !.mem[nd.next + 1].prev = nd.prev]
             l3 == LLFree(l2, i)
         IN [l |-> [l3 EXCEPT !.len = l.len - 1], ret |-> nd.data]

\* pop_rear(): remove(rear) when non-empty, None when empty.
LLPopRear(l) ==
    IF l.len = 0 THEN [l |-> l, ret |-> None] ELSE LLRemove(l, l.rear)

\* iter(): node indices front to rear by following next links.
RECURSIVE LLWalk(_, _, _)
LLWalk(l, i, fuel) ==
    IF i = LNULL \/ fuel = 0 THEN <<>>
    ELSE <<i>> \o LLWalk(l, LLNode(l, i).next, fuel - 1)

LLIterIdx(l) == LLWalk(l, l.front, Len(l.mem))

\* iter(): the payloads front to rear.
LLIter(l) == [j \in 1..Len(LLIterIdx(l)) |-> Unwrap(LLNode(l, LLIterIdx(l)[j]).data)]

\* ================================================================
\* LruCache
\* ================================================================

\* HashMap helpers (a HashMap is a function on its key set)
MapInsert(m, k, x) == [j \in DOMAIN m \cup {k} |-> IF j = k THEN x ELSE m[j]]
MapRemove(m, k) == [j \in DOMAIN m \ {k} |-> m[j]]

\* LruCache::new
\* ---- the abstract LRU map: a sequence of <<key, value>> pairs with
\* distinct keys, most recently used first, never longer than the capacity
AbsWithout(a, key) == SelectSeq(a, LAMBDA e : e[1] # key)
AbsHas(a, key) == \E j \in 1..Len(a) : a[j][1] = key
AbsLookup(a, key) ==
    IF AbsHas(a, key) THEN Some(a[CHOOSE j \in 1..Len(a) : a[j][1] = key][2]) ELSE None
AbsKeys(a) == [j \in 1..Len(a) |-> a[j][1]]
\* put: the pair becomes the most recent one; beyond cap pairs the least
\* recently used is dropped
AbsPut(a, cap, key, val) ==
    LET b == <<<<key, val>>>> \o AbsWithout(a, key)
    IN SubSeq(b, 1, IF Len(b) <= cap THEN Len(b) ELSE cap)
\* get: a hit makes the pair the most recent one, a miss changes nothing
AbsGet(a, key) ==
    IF AbsHas(a, key)
    THEN <<<<key, Unwrap(AbsLookup(a, key))>>>> \o AbsWithout(a, key)
    ELSE a

LruNew(cap) ==
    /\ lru_model = <<>>
    /\ key_table = << >>
    /\ list = LinkedListNew
    /\ cache_size = cap
    /\ lru_aborted = NoAbort
    /\ lru_last = [op |-> "new", key |-> 0, ret |-> None]
    /\ inserted = {}

\* The effect of put(key, val) as a record [kt, l, abort]
PutEffect(kt, l, cap, key, val) ==
    IF l.len < cap
    THEN \* cache isnt full so just push front
         LET l1 == LLPushFront(l, <<key, val>>)
         IN [kt |-> MapInsert(kt, key, l1.front), l |-> l1, abort |-> NoAbort]
    ELSE IF key \in DOMAIN kt
    THEN \* key exists
         LET r == LLRemove(l, kt[key]) IN
         IF ~IsSome(r.ret)
         THEN [kt |-> kt, l |-> r.l, abort |-> "put: remove(cur_node).unwrap()"]
         ELSE LET rkey == Unwrap(r.ret)[1]
                  l1   == LLPushFront(r.l, <<rkey, val>>)
              IN IF rkey \notin DOMAIN kt
                 THEN [kt |-> kt, l |-> l1, abort |-> "put: get_mut Key should exist"]
                 ELSE [kt |-> [kt EXCEPT ![rkey] = l1.front], l |-> l1, abort |-> NoAbort]
    ELSE \* key doesnt exist
         LET r == LLPopRear(l) IN
         IF ~IsSome(r.ret)
         THEN [kt |-> kt, l |-> r.l, abort |-> "put: pop_rear().unwrap()"]
         ELSE LET rkey == Unwrap(r.ret)[1] IN
              IF rkey \notin DOMAIN kt
              THEN [kt |-> kt, l |-> r.l, abort |-> "put: remove Key should exist"]
              ELSE LET l1 == LLPushFront(r.l, <<key, val>>)
                   IN [kt |-> MapInsert(MapRemove(kt, rkey), key, l1.front),
                       l |-> l1, abort |-> NoAbort]

\* LruCache::put
Put(key, val) ==
    /\ lru_aborted = NoAbort
    /\ LET e == PutEffect(key_table, list, cache_size, key, val) IN
        /\ key_table' = e.kt
        /\ list' = e.l
        /\ lru_aborted' = e.abort
    /\ lru_last' = [op |-> "put", key |-> key, ret |-> None]
    /\ inserted' = inserted \cup {key}
    /\ UNCHANGED <<cache_size, not_lru>>

\* get that refreshes the table entry but leaves the node where it is
GetEffect_NoPromote(kt, l, key) ==
    IF key \notin DOMAIN kt
    THEN [kt |-> kt, l |-> l, abort |-> NoAbort, ret |-> None]
    ELSE LET nd == LLNode(l, kt[key])
         IN [kt |-> kt, l |-> l, abort |-> NoAbort,
             ret |-> IF IsSome(nd.data) THEN Some(Unwrap(nd.data)[2]) ELSE None]

\* get that unwraps the table lookup instead of returning early on a miss
GetEffect_MissPanics(kt, l, key) ==
    IF key \notin DOMAIN kt
    THEN [kt |-> kt, l |-> l, abort |-> "get: val should exist", ret |-> None]
    ELSE LET r    == LLRemove(l, kt[key])
             rkey == Unwrap(r.ret)[1]
             rval == Unwrap(r.ret)[2]
             l1   == LLPushFront(r.l, <<rkey, rval>>)
         IN [kt |-> [kt EXCEPT ![key] = l1.front], l |-> l1, abort |-> NoAbort,
             ret |-> Some(rval)]

\* The effect of get(key) as a record [kt, l, abort, ret]
GetEffect(kt, l, key) ==
    IF key \notin DOMAIN kt
    THEN [kt |-> kt, l |-> l, abort |-> NoAbort, ret |-> None]
    ELSE LET r == LLRemove(l, kt[key]) IN
         IF ~IsSome(r.ret)
         THEN [kt |-> kt, l |-> r.l, abort |-> "get: val should exist", ret |-> None]
         ELSE LET rkey == Unwrap(r.ret)[1]
                  rval == Unwrap(r.ret)[2]
                  l1   == LLPushFront(r.l, <<rkey, rval>>)
                  nd   == LLNode(l1, l1.front)
              IN [kt |-> [kt EXCEPT ![key] = l1.front], l |-> l1, abort |-> NoAbort,
                  ret |-> IF IsSome(nd.data) THEN Some(Unwrap(nd.data)[2]) ELSE None]

\* LruCache::get
Get(key) ==
    /\ lru_aborted = NoAbort
    /\ LET e == GetEffect(key_table, list, key) IN
        /\ key_table' = e.kt
        /\ list' = e.l
        /\ lru_aborted' = e.abort
        /\ lru_last' = [op |-> "get", key |-> key, ret |-> e.ret]
    /\ UNCHANGED <<cache_size, inserted, not_lru>>

\* LruCache::iter
LruIter == LLIter(list)
LruIterKeys == [j \in 1..Len(LruIter) |-> LruIter[j][1]]

\* the cache called on its own: the abstract map is not run
LruPut == \E k \in Keys, v \in Vals : Put(k, v) /\ UNCHANGED lru_model
LruGet == \E k \in Keys : Get(k) /\ UNCHANGED lru_model

\* the cache and the abstract map given the same call
LruMapPut == \E k \in Keys, v \in Vals :
                Put(k, v) /\ lru_model' = AbsPut(lru_model, cache_size, k, v)
LruMapGet == \E k \in Keys : Get(k) /\ lru_model' = AbsGet(lru_model, k)

\* ================================================================
\* RingBuffer (slot indices only; the Memory payload is not modelled)
\* rb_pointers is the array [usize; 2]: element FRONT lives at
\* rb_pointers[FRONT + 1], element REAR at rb_pointers[REAR + 1]
\* ================================================================
FRONT == 0
REAR == 1

\* RingBuffer::from(RingSpecifier::MakeEmpty(mem)) with mem.len() = cap
\* (RingBuffer::new is the case cap = 0)
MakeEmpty(cap) ==
    /\ rb_len = 0
    /\ rb_capacity = cap
    /\ rb_pointers = <<0, 0>>
    /\ rb_last = [op |-> "new", ret |-> None, abort |-> FALSE]
    /\ enq_log = <<>>
    /\ deq_log = <<>>
    /\ rb_plain = TRUE

\* RingBuffer::from(RingSpecifier::MakeFull(mem)) with mem.len() = cap
MakeFull(cap) ==
    /\ rb_len = cap
    /\ rb_capacity = cap
    /\ rb_pointers = <<0, 0>>
    /\ rb_last = [op |-> "new", ret |-> None, abort |-> FALSE]
    /\ enq_log = <<>>
    /\ deq_log = <<>>
    /\ rb_plain = FALSE

\* RingBuffer::is_empty / is_full
IsEmpty(len) == len <= 0
\* is_full with > in place of >=
IsFull_Strict(len, cap) == len > cap
IsFull(len, cap) == len >= cap

\* RingBuffer::increment_pointer as a record [len, ptrs, ret, abort];
\* ret is Some(old_ptr); % capacity panics when capacity is 0
IncrementPointer(len, cap, ptrs, has_no_space, pointer_type, len_inc_dec) ==
    IF has_no_space
    THEN [len |-> len, ptrs |-> ptrs, ret |-> None, abort |-> FALSE]
    ELSE IF cap = 0
    THEN [len |-> len, ptrs |-> ptrs, ret |-> None, abort |-> TRUE]
    ELSE [len   |-> len + len_inc_dec,
          ptrs  |-> [ptrs EXCEPT ![pointer_type + 1] = (ptrs[pointer_type + 1] + 1) % cap],
          ret   |-> Some(ptrs[pointer_type + 1]),
          abort |-> FALSE]

\* enqueue answering cur_ptr in place of old_ptr
EnqueueEffect_CurPtr(len, cap, ptrs) ==
    LET r == IncrementPointer(len, cap, ptrs, IsFull(len, cap), REAR, 1)
    IN [r EXCEPT !.ret = IF IsSome(r.ret) THEN Some(r.ptrs[REAR + 1]) ELSE None]
\* RingBuffer::enqueue
EnqueueEffect(len, cap, ptrs) == IncrementPointer(len, cap, ptrs, IsFull(len, cap), REAR, 1)

\* RingBuffer::dequeue
DequeueEffect(len, cap, ptrs) == IncrementPointer(len, cap, ptrs, IsEmpty(len), FRONT, -1)

\* RingBuffer::pop_rear as a record [len, ptrs, ret, abort]
PopRearEffect(len, cap, ptrs) ==
    IF IsEmpty(len)
    THEN [len |-> len, ptrs |-> ptrs, ret |-> None, abort |-> FALSE]
    ELSE IF cap = 0
    THEN [len |-> len, ptrs |-> ptrs, ret |-> None, abort |-> TRUE]
    ELSE LET r == (ptrs[REAR + 1] + cap - 1) % cap
         IN [len |-> len - 1, ptrs |-> [ptrs EXCEPT ![REAR + 1] = r],
             ret |-> Some(r), abort |-> FALSE]

\* RingIter: the indices index_iter() yields, cur = front, len items
RECURSIVE RingIter(_, _, _)
RingIter(cur, cap, len) ==
    IF len = 0 THEN <<>>
    ELSE <<cur>> \o RingIter((cur + 1) % cap, cap, len - 1)

\* RingBuffer::enqueue; at most MaxEnq successful enqueues are followed
Enqueue ==
    /\ ~rb_last.abort
    /\ Len(enq_log) < MaxEnq
    /\ LET e == EnqueueEffect(rb_len, rb_capacity, rb_pointers) IN
        /\ rb_len' = e.len
        /\ rb_pointers' = e.ptrs
        /\ rb_last' = [op |-> "enqueue", ret |-> e.ret, abort |-> e.abort]
        /\ enq_log' = IF IsSome(e.ret) THEN Append(enq_log, Unwrap(e.ret)) ELSE enq_log
    /\ UNCHANGED <<rb_capacity, deq_log, rb_plain, not_ring>>

\* RingBuffer::dequeue
Dequeue ==
    /\ ~rb_last.abort
    /\ LET e == DequeueEffect(rb_len, rb_capacity, rb_pointers) IN
        /\ rb_len' = e.len
        /\ rb_pointers' = e.ptrs
        /\ rb_last' = [op |-> "dequeue", ret |-> e.ret, abort |-> e.abort]
        /\ deq_log' = IF IsSome(e.ret) THEN Append(deq_log, Unwrap(e.ret)) ELSE deq_log
    /\ UNCHANGED <<rb_capacity, enq_log, rb_plain, not_ring>>

\* RingBuffer::pop_rear
PopRear ==
    /\ ~rb_last.abort
    /\ LET e == PopRearEffect(rb_len, rb_capacity, rb_pointers) IN
        /\ rb_len' = e.len
        /\ rb_pointers' = e.ptrs
        /\ rb_last' = [op |-> "pop_rear", ret |-> e.ret, abort |-> e.abort]
        /\ rb_plain' = (rb_plain /\ ~IsSome(e.ret))
    /\ UNCHANGED <<rb_capacity, enq_log, deq_log, not_ring>>

\* ================================================================
\* NaryTree
\* t_memory is the backing Vec<NaryNode>: index i lives at t_memory[i+1]
\* ================================================================
\* NaryNode::from(data)
TreeNodeFrom(data) == [parent |-> NULL, data |-> data, children |-> <<>>]

\* NaryNode::nullify
Nullify(node) == [node EXCEPT !.parent = NULL, !.data = None, !.children = <<>>]

\* NaryTree::new
TreeNew ==
    /\ t_root = NULL
    /\ t_memory = <<>>
    /\ node_pool = <<>>
    /\ t_last = [op |-> "new", ret |-> NULL, data |-> None]
    /\ t_live = {}

\* NaryTree::allocate_node as a record [mem, pool, ret]
AllocateNodeEffect(mem, np, data) ==
    IF Len(np) > 0
    THEN LET node_ptr == np[Len(np)]
         IN [mem  |-> [mem EXCEPT ![node_ptr + 1] = Nullify(@)],
             pool |-> SubSeq(np, 1, Len(np) - 1),
             ret  |-> node_ptr]
    ELSE [mem |-> Append(mem, TreeNodeFrom(data)), pool |-> np, ret |-> Len(mem)]

\* NaryTree::free_node as a record [mem, pool]
FreeNodeEffect(mem, np, node_ref) ==
    IF node_ref /= NULL
    THEN [mem |-> [mem EXCEPT ![node_ref + 1].data = None], pool |-> Append(np, node_ref)]
    ELSE [mem |-> mem, pool |-> np]

\* NaryTree::allocate_node; the backing store is capped at MaxTreeNodes slots
AllocateNode(data) ==
    /\ Len(node_pool) = 0 => Len(t_memory) < MaxTreeNodes
    /\ LET e == AllocateNodeEffect(t_memory, node_pool, data) IN
        /\ t_memory' = e.mem
        /\ node_pool' = e.pool
        /\ t_last' = [op |-> "allocate_node", ret |-> e.ret, data |-> data]
        /\ t_live' = t_live \cup {e.ret}
    /\ UNCHANGED <<t_root, not_tree>>

\* NaryTree::free_node, called on NULL or on a live node
FreeNode(node_ref) ==
    /\ node_ref = NULL \/ node_ref \in t_live
    /\ LET e == FreeNodeEffect(t_memory, node_pool, node_ref) IN
        /\ t_memory' = e.mem
        /\ node_pool' = e.pool
    /\ t_last' = [op |-> "free_node", ret |-> node_ref, data |-> None]
    /\ t_live' = t_live \ {node_ref}
    /\ UNCHANGED <<t_root, not_tree>>

\* the number of child links held by the nodes of mem
RECURSIVE TreeLinks(_)
TreeLinks(mem) ==
    IF mem = <<>> THEN 0 ELSE Len(Head(mem).children) + TreeLinks(Tail(mem))

\* NaryNode::add_child on the live node n: push child_addr, set own parent;
\* the tree holds at most MaxTreeLinks child links
NodeAddChild(n, child_addr, parent_addr) ==
    /\ n \in t_live
    /\ TreeLinks(t_memory) < MaxTreeLinks
    /\ t_memory' = [t_memory EXCEPT ![n + 1].children = Append(@, child_addr),
                                    ![n + 1].parent = parent_addr]
    /\ t_last' = [op |-> "add_child", ret |-> n, data |-> None]
    /\ UNCHANGED <<t_root, node_pool, t_live, not_tree>>

\* NaryTree::clear
TreeClear ==
    /\ t_root' = NULL
    /\ t_memory' = <<>>
    /\ node_pool' = <<>>
    /\ t_last' = [op |-> "clear", ret |-> NULL, data |-> None]
    /\ t_live' = {}
    /\ UNCHANGED not_tree

TreeAllocateNode == \E d \in {None} \cup {Some(v) : v \in Vals} : AllocateNode(d)
TreeFreeNode == \E n \in t_live \cup {NULL} : FreeNode(n)
TreeNodeAddChild == \E n \in t_live, c \in t_live, p \in t_live \cup {NULL} :
                        NodeAddChild(n, c, p)

vars == <<lru_vars, forest_vars, ring_vars, tree_vars>>

\* the cache on its own: any capacity 0..MaxCap, any puts and gets
Init == (\E cap \in 0..MaxCap : LruNew(cap)) /\ ForestNew /\ MakeEmpty(0) /\ TreeNew
Next == LruPut \/ LruGet
Spec == Init /\ [][Next]_vars

\* the cache run in step with the abstract LRU map
LruMapNext == LruMapPut \/ LruMapGet
SpecLruMap == Init /\ [][LruMapNext]_vars

\* the forest on its own
ForestInit == ForestNew /\ LruNew(0) /\ MakeEmpty(0) /\ TreeNew
ForestNext ==
    \/ ForestAllocate
    \/ ForestFree
    \/ ForestAddChild
    \/ ForestAddChildAt
    \/ ForestPushRoot
SpecForest == ForestInit /\ [][ForestNext]_vars

\* the arena of the forest on its own: allocate, allocate_node and free
AllocNext ==
    \/ ForestAllocate
    \/ ForestAllocateNode
    \/ ForestFree
SpecAlloc == ForestInit /\ [][AllocNext]_vars

\* the forest built up without free (allocate, links and roots only) and
\* then searched. A search changes nothing in the forest, so the calls that
\* could follow it are the ones already followed without it: a search is
\* the last call of a run.
Searched == f_last.op \in {"search", "search_all"}
BuildNext ==
    \/ ~Searched /\ BuildAllocate
    \/ ~Searched /\ ForestAddChild
    \/ ~Searched /\ ForestAddChildAt
    \/ ~Searched /\ ForestPushRoot
    \/ ~Searched /\ ForestSearch
    \/ ~Searched /\ ForestSearchAll
SpecBuild == ForestInit /\ [][BuildNext]_vars

\* the ring buffer on its own: created empty or full, capacity 0..MaxRingCap
RingInit ==
    /\ \E cap \in 0..MaxRingCap : MakeEmpty(cap) \/ MakeFull(cap)
    /\ LruNew(0) /\ ForestNew /\ TreeNew
RingNext == Enqueue \/ Dequeue \/ PopRear
SpecRing == RingInit /\ [][RingNext]_vars

\* the tree arena on its own
TreeInit == TreeNew /\ LruNew(0) /\ ForestNew /\ MakeEmpty(0)
TreeNext ==
    \/ TreeAllocateNode
    \/ TreeFreeNode
    \/ TreeNodeAddChild
    \/ TreeClear
SpecTree == TreeInit /\ [][TreeNext]_vars

\* ================================================================
\* LruCache properties
\* ================================================================
TableSize == Cardinality(DOMAIN key_table)

\* position of the first pair with key k in a sequence of pairs (0 if none)
RECURSIVE FirstPos(_, _)
FirstPos(s, k) ==
    IF s = <<>> THEN 0
    ELSE IF Head(s)[1] = k THEN 1
    ELSE LET r == FirstPos(Tail(s), k) IN IF r = 0 THEN 0 ELSE r + 1

\* a sequence with its element at position p dropped
DropAt(s, p) == SubSeq(s, 1, p - 1) \o SubSeq(s, p + 1, Len(s))

\* C1: in every state reached by put/get calls on a cache of capacity >= 1
\* the hashtable and the list are in 1:1 correspondence: every key of
\* key_table points to a linked node holding that key, every linked node's
\* key maps to that very node, and no key occurs twice in the list.
C1_Correspondence ==
    (cache_size >= 1 /\ lru_aborted = NoAbort) =>
        /\ \A k \in DOMAIN key_table :
              /\ key_table[k] \in SeqToSet(LLIterIdx(list))
              /\ Unwrap(LLNode(list, key_table[k]).data)[1] = k
        /\ \A i \in SeqToSet(LLIterIdx(list)) :
              LET k == Unwrap(LLNode(list, i).data)[1]
              IN k \in DOMAIN key_table /\ key_table[k] = i
        /\ \A i, j \in 1..Len(LruIterKeys) :
              LruIterKeys[i] = LruIterKeys[j] => i = j

\* C2: put on a key already present never changes the number of entries
\* (list length and hashtable size) and leaves that key at the front with
\* the new value, whether or not the cache is full.
C2_UpdateNotEvict ==
    [][\A k \in Keys, v \in Vals :
          (Put(k, v) /\ cache_size >= 1 /\ k \in DOMAIN key_table) =>
              /\ lru_aborted' = NoAbort
              /\ list'.len = list.len
              /\ TableSize' = TableSize
              /\ Len(LruIter') >= 1
              /\ LruIter'[1] = <<k, v>>]_vars

\* C3: the cache holds at most cache_size entries, and exactly cache_size
\* entries once at least cache_size distinct keys have been put.
C3_Capacity ==
    (cache_size >= 1 /\ lru_aborted = NoAbort) =>
        /\ list.len <= cache_size
        /\ TableSize <= cache_size
        /\ Cardinality(inserted) >= cache_size =>
              (list.len = cache_size /\ TableSize = cache_size)

\* C4: put of a key that is not in the cache on a full cache removes exactly
\* the rear entry from the list and the hashtable, makes the new entry the
\* front and keeps the order of all other entries.
C4_Eviction ==
    [][\A k \in Keys, v \in Vals :
          (/\ Put(k, v)
           /\ cache_size >= 1
           /\ list.len >= cache_size
           /\ k \notin DOMAIN key_table
           /\ k \notin SeqToSet(LruIterKeys)) =>
              /\ lru_aborted' = NoAbort
              /\ LruIter' = << <<k, v>> >> \o SubSeq(LruIter, 1, Len(LruIter) - 1)
              /\ DOMAIN key_table' =
                    (DOMAIN key_table \ {LruIter[Len(LruIter)][1]}) \cup {k}]_vars

C6_PutFront ==
    [][\A k \in Keys, v \in Vals :
          (Put(k, v) /\ cache_size >= 1) =>
              /\ lru_aborted' = NoAbort
              /\ Len(LruIter') >= 1
              /\ LruIter'[1] = <<k, v>>]_vars

\* C7: get on a key absent from the cache returns nothing, does not abort
\* and leaves the hashtable and the list unchanged.
C7_GetMiss ==
    [][\A k \in Keys :
          (Get(k) /\ k \notin DOMAIN key_table) =>
              /\ lru_last'.ret = None
              /\ lru_aborted' = NoAbort
              /\ key_table' = key_table
              /\ list' = list]_vars

\* a miss has been served by a non-empty cache
C7_Witness ==
    /\ lru_last.op = "get"
    /\ lru_last.ret = None
    /\ lru_aborted = NoAbort
    /\ lru_last.key \notin DOMAIN key_table
    /\ list.len >= 1

\* C8: a cache of capacity 0 never aborts and never retains an entry.
C8_ZeroCapacity ==
    cache_size = 0 =>
        /\ lru_aborted = NoAbort
        /\ list.len = 0
        /\ key_table = << >>

\* ================================================================
\* NaryForest properties
\* ================================================================
\* C9: free(n) of a live node followed immediately by allocate(v) does not
\* abort, returns the same index n, and node n then has an empty children
\* sequence and parent NULL.
C9_Recycle ==
    [][\A v \in Vals :
          (f_last.op = "free" /\ f_last.ok /\ Allocate(v)) =>
              /\ f_aborted' = NoAbort
              /\ f_last'.ret = f_last.node
              /\ memory'[f_last.node + 1].children = <<>>
              /\ memory'[f_last.node + 1].parent = NULL]_vars

\* C10: every allocate(v) that returns, returns an index whose node holds
\* payload v, for a fresh slot and for a slot popped from the free list.
C10_AllocateHoldsValue ==
    [][\A v \in Vals :
          (Allocate(v) /\ f_aborted' = NoAbort) =>
              /\ InRange(memory', f_last'.ret)
              /\ memory'[f_last'.ret + 1].data = Some(v)]_vars

\* the nodes reachable from the set S via children links (in-range ones)
RECURSIVE Closure(_, _, _)
Closure(mem, S, fuel) ==
    LET T == S \cup UNION {SeqToSet(mem[i + 1].children) : i \in S}
        U == {i \in T : InRange(mem, i)}
    IN IF fuel = 0 \/ U = S THEN S ELSE Closure(mem, U, fuel - 1)

\* the nodes reachable from root_list
Reach == Closure(memory, {r \in SeqToSet(root_list) : InRange(memory, r)}, Len(memory))

\* the nodes on the free list: pool, then children[0] of each, as allocate pops them
RECURSIVE FreeChain(_, _, _)
FreeChain(mem, pl, fuel) ==
    IF fuel = 0 \/ ~InRange(mem, pl) THEN {}
    ELSE {pl} \cup (IF Len(mem[pl + 1].children) = 0 THEN {}
                    ELSE FreeChain(mem, mem[pl + 1].children[1], fuel - 1))

FreeList == FreeChain(memory, pool, Len(memory))

\* C11: after free(n) of a live node n the payload of n is cleared, its
\* children sequence is exactly the previous free-list head, and pool = n.
C11_FreeThreads ==
    [][\A n \in Indices :
          (n \in live /\ Free(n)) =>
              /\ memory'[n + 1].data = None
              /\ memory'[n + 1].children = <<pool>>
              /\ pool' = n]_vars

\* C12: no node reachable from root_list is on the free list, as long as
\* every node reachable from root_list is live (none of them was freed).
C12_Disjoint ==
    (f_aborted = NoAbort /\ Reach \subseteq live) => Reach \cap FreeList = {}

\* C20: no sequence of put and get calls on a cache of capacity >= 1 aborts.
C20_NoAbort ==
    cache_size >= 1 => lru_aborted = NoAbort

\* C17: in a ring of capacity >= 1 created empty and driven by enqueue and
\* dequeue only, the k-th successful dequeue returned the slot of the k-th
\* successful enqueue, len is enqueues minus dequeues, and the iterator
\* yields the slots enqueued and not yet dequeued, in enqueue order.
C17_Fifo ==
    (rb_plain /\ rb_capacity >= 1) =>
        /\ Len(deq_log) <= Len(enq_log)
        /\ \A k \in 1..Len(deq_log) : deq_log[k] = enq_log[k]
        /\ rb_len = Len(enq_log) - Len(deq_log)
        /\ RingIter(rb_pointers[FRONT + 1], rb_capacity, rb_len)
             = [j \in 1..(Len(enq_log) - Len(deq_log)) |-> enq_log[Len(deq_log) + j]]

\* the rear pointer has wrapped past the end of the memory and slots are
\* occupied on both sides of the wrap
C17_Witness ==
    /\ rb_plain
    /\ rb_capacity >= 2
    /\ Len(deq_log) >= 1
    /\ rb_len >= 2
    /\ rb_pointers[REAR + 1] <= rb_pointers[FRONT + 1]
    /\ Len(enq_log) > rb_capacity

\* C18: enqueue on a full ring (capacity 0 included) and dequeue or pop_rear
\* on an empty ring answer None, change neither len nor the two pointers,
\* and do not abort.
C18_FailingCalls ==
    [][(\/ Enqueue /\ rb_len >= rb_capacity
        \/ Dequeue /\ rb_len = 0
        \/ PopRear /\ rb_len = 0) =>
           /\ rb_last'.ret = None
           /\ ~rb_last'.abort
           /\ rb_len' = rb_len
           /\ rb_pointers' = rb_pointers]_vars

\* an enqueue was refused by a full ring whose pointers are off zero
C18_Witness ==
    /\ rb_last.op = "enqueue"
    /\ rb_last.ret = None
    /\ rb_len = rb_capacity
    /\ rb_capacity >= 1
    /\ rb_pointers[FRONT + 1] # 0

\* C19: the node at the index allocate_node(data) returns holds payload data,
\* parent NULL and no children, for an appended and for a reused slot.
C19_AllocateNodeHoldsData ==
    [][\A d \in {None} \cup {Some(v) : v \in Vals} :
          AllocateNode(d) =>
              LET r == t_last'.ret IN
                  /\ r + 1 \in 1..Len(t_memory')
                  /\ t_memory'[r + 1].data = d
                  /\ t_memory'[r + 1].parent = NULL
                  /\ t_memory'[r + 1].children = <<>>]_vars

\* C13: add_child_at(parent, child, index) with index <= children.len()
\* succeeds, puts child at position index with the earlier children in place
\* and the later ones moved one to the right, and sets child.parent = parent;
\* with index > children.len() it answers CannotInsert and changes no node.
C13_AddChildAt ==
    [][f_last'.op = "add_child_at" =>
       \A p \in Indices, c \in Indices :
          AddChildAt(p, c, f_last'.index) =>
              LET old == memory[p + 1].children
                  new == memory'[p + 1].children
                  i   == f_last'.index
              IN IF i <= Len(old)
                 THEN /\ f_last'.ok
                      /\ Len(new) = Len(old) + 1
                      /\ new[i + 1] = c
                      /\ \A j \in 1..i : new[j] = old[j]
                      /\ \A j \in (i + 1)..Len(old) : new[j + 1] = old[j]
                      /\ memory'[c + 1].parent = p
                 ELSE /\ ~f_last'.ok
                      /\ new = old
                      /\ memory'[c + 1].parent = memory[c + 1].parent
                      /\ memory' = memory]_vars

\* an insertion at position 0 has moved an earlier child to the right
C13_Witness ==
    /\ f_last.op = "add_child_at"
    /\ f_last.ok
    /\ f_last.index = 0
    /\ \E p \in 0..(Len(memory) - 1) :
          /\ Len(memory[p + 1].children) = 2
          /\ memory[p + 1].children[1] # memory[p + 1].children[2]
          /\ memory[memory[p + 1].children[1] + 1].parent = p

\* the children of node i as a set
Succ(mem, i) == SeqToSet(mem[i + 1].children)

\* no node reachable from the set S lies on a cycle of child links
AcyclicFrom(mem, S) ==
    \A i \in Closure(mem, {r \in S : InRange(mem, r)}, Len(mem)) :
        i \notin Closure(mem, Succ(mem, i), Len(mem))

\* the depth-first pre-order of the nodes under root: the node, then the
\* pre-orders of its children from left to right
RECURSIVE Preorder(_, _, _), PreorderOfSeq(_, _, _)
Preorder(mem, root, fuel) ==
    IF root = NULL \/ fuel = 0 THEN <<>>
    ELSE <<root>> \o PreorderOfSeq(mem, mem[root + 1].children, fuel - 1)

PreorderOfSeq(mem, ch, fuel) ==
    IF ch = <<>> THEN <<>>
    ELSE Preorder(mem, Head(ch), fuel) \o PreorderOfSeq(mem, Tail(ch), fuel)

\* the nodes of seq that pred accepts, in the order of seq
Matches(seq, pred) == SelectSeq(seq, LAMBDA x : x \in pred)

\* C14: on an acyclic tree search(root, pred) returns the first node of the
\* pre-order from root that pred accepts, and nothing when root is NULL or
\* pred accepts no node of the tree.
C14_SearchFirst ==
    (f_last.op = "search" /\ AcyclicFrom(memory, {f_last.node})) =>
        LET m == Matches(Preorder(memory, f_last.node, Len(memory)), f_last.pred)
        IN /\ f_last.ok
           /\ f_last.found = IF m = <<>> THEN None ELSE Some(m[1])

\* the search passed over the root and its first child and found the
\* second child
C14_Witness ==
    /\ f_last.op = "search"
    /\ f_last.node # NULL
    /\ AcyclicFrom(memory, {f_last.node})
    /\ Len(memory[f_last.node + 1].children) = 2
    /\ memory[f_last.node + 1].children[1] # memory[f_last.node + 1].children[2]
    /\ f_last.found = Some(memory[f_last.node + 1].children[2])

\* the pre-orders of the trees of roots, concatenated in the order of roots
RECURSIVE PreorderAll(_, _)
PreorderAll(mem, roots) ==
    IF roots = <<>> THEN <<>>
    ELSE Preorder(mem, Head(roots), Len(mem)) \o PreorderAll(mem, Tail(roots))

\* root_list names trees: no link cycle under a root, and no node is met
\* twice by the traversal (no shared child, no root listed twice, no root
\* that is also a child)
IsForest ==
    /\ AcyclicFrom(memory, SeqToSet(root_list))
    /\ LET po == PreorderAll(memory, root_list)
       IN \A j, k \in 1..Len(po) : po[j] = po[k] => j = k

\* the shortest prefix of seq that holds n nodes accepted by pred; all of
\* seq when it holds fewer
EvalPrefix(seq, n, pred) ==
    LET K == {k \in 0..Len(seq) : Len(Matches(SubSeq(seq, 1, k), pred)) >= n}
    IN IF K = {} THEN seq
       ELSE SubSeq(seq, 1, CHOOSE k \in K : \A l \in K : k <= l)

\* C15: over a forest, search_all(n, pred) returns the first min(n, m) nodes
\* that pred accepts, in the order of the concatenated pre-orders, m being
\* the number of nodes of the forest pred accepts; never more than n, none
\* for n = 0; and pred is called on no node after the n-th result.
C15_SearchAllCap ==
    (f_last.op = "search_all" /\ IsForest) =>
        LET po  == PreorderAll(memory, root_list)
            all == Matches(po, f_last.pred)
            n   == f_last.max_results
            m   == Cardinality(SeqToSet(po) \cap f_last.pred)
            k   == IF n <= m THEN n ELSE m
        IN /\ f_last.ok
           /\ Len(f_last.found) = k
           /\ f_last.found = SubSeq(all, 1, k)
           /\ Len(f_last.found) <= n
           /\ n = 0 => f_last.found = <<>>
           /\ SearchAllEffect(memory, root_list, n, f_last.pred).evals
                = EvalPrefix(po, n, f_last.pred)

\* the cap cut a search over two nodes short: both are accepted, one is
\* returned
C15_Witness ==
    /\ f_last.op = "search_all"
    /\ IsForest
    /\ f_last.max_results = 1
    /\ Len(PreorderAll(memory, root_list)) = 2
    /\ SeqToSet(PreorderAll(memory, root_list)) \subseteq f_last.pred
    /\ f_last.found = <<PreorderAll(memory, root_list)[1]>>

\* C16: in every state built by allocate, add_child, add_child_at and root
\* registration on in-range indices, search and search_all return.
C16_SearchReturns ==
    (f_last.op \in {"search", "search_all"}) => f_last.ok

\* C21: with free called on live indices only, no allocate and no
\* allocate_node returns an index that is live at the call, and the
\* free-list head is always NULL or a node that was freed and not handed out
\* again.
C21_NoDoubleAllocation ==
    [][/\ \A v \in Vals :
            (Allocate(v) /\ f_aborted' = NoAbort) => f_last'.ret \notin live
       /\ \A node \in NodeArgs :
            (ForestAllocateNodeOf(node) /\ f_aborted' = NoAbort) => f_last'.ret \notin live
       /\ pool' = NULL \/ (InRange(memory', pool') /\ pool' \notin live')]_vars

\* C22: a cache of capacity >= 1 agrees with the abstract LRU map after every
\* put and get: a get returned the value of the latest put of its key exactly
\* when the key was among the capacity-many most recently used keys, a miss
\* otherwise, and iter yields the keys of the map, most recent first.
C22_RefinesLruMap ==
    cache_size >= 1 =>
        /\ LruIterKeys = AbsKeys(lru_model)
        /\ lru_last.op = "get" => lru_last.ret = AbsLookup(lru_model, lru_last.key)
====
